---- MODULE Spec2Model ----
(***************************************************************************)
(* ReCo recommendation pipeline: the shared RecommendationState, the       *)
(* orchestrator (router_node / should_continue), the four stage nodes,     *)
(* the LangGraph wiring of recommendation_graph.py and the /recommend      *)
(* handler of routes.py.                                                   *)
(*                                                                         *)
(* Conventions.                                                            *)
(*  - A Python Optional is a sequence of length at most one: None is <<>>  *)
(*    and a present value x is <<x>>.  state.get(k) of an absent key and   *)
(*    of a key holding None are both None.                                 *)
(*  - Python floats are fixed-point integers; every scale is named.        *)
(*  - A stage's collaborators (rules file, vector store, database) are     *)
(*    inputs of the stage's action, drawn from small sets.                 *)
(***************************************************************************)
EXTENDS Integers, Sequences, FiniteSets, TLC

VARIABLES
    state,      \* the RecommendationState dict threaded through the nodes
    last,       \* the last call: the node, how it ended, what its collaborators answered
    node,       \* the graph host's position: the node to run next, or END
    trace,      \* the calls the graph host has made, in order
    response,   \* what the /recommend handler answered
    decision,   \* should_continue's answer for the current state, when asked
    returned    \* what a direct call of a scoring function returned

vars == <<state, last, node, trace, response, decision, returned>>

-----------------------------------------------------------------------------
(* Python values *)

None == <<>>
Some(x) == <<x>>
IsNone(o) == o = <<>>
Get(o) == o[1]

\* truthiness of an Optional[str]: None and "" are falsy
TruthyStr(o) == o # <<>> /\ o[1] # ""
\* truthiness of an Optional[list]: None and [] are falsy
TruthyList(o) == o # <<>> /\ o[1] # <<>>
\* truthiness of an Optional[dict] whose dict is never empty
TruthyDict(o) == o # <<>>
\* truthiness of an Optional[number]: None and 0 are falsy
TruthyNum(o) == o # <<>> /\ o[1] # 0

Min2(a, b) == IF a < b THEN a ELSE b
Max2(a, b) == IF a > b THEN a ELSE b
Abs(a) == IF a < 0 THEN -a ELSE a

RECURSIVE SqrtSearch(_, _, _)
SqrtSearch(x, lo, hi) ==
    IF lo >= hi THEN lo
    ELSE LET mid == (lo + hi + 1) \div 2
         IN IF mid * mid <= x THEN SqrtSearch(x, mid, hi)
            ELSE SqrtSearch(x, lo, mid - 1)
\* floor of the square root (np.sqrt in fixed point)
ISqrt(x) == SqrtSearch(x, 0, 46340)

-----------------------------------------------------------------------------
(* core/state.py: the persona vector space *)

Axes == <<"trust_safety", "quality_condition", "remote_transaction",
          "activity_responsiveness", "price_flexibility">>

\* PERSONA_PROTOTYPES in declaration (dict iteration) order
PersonaOrder ==
    <<"local_offline", "fast_shipping_online", "hybrid_trade",
      "trust_safety_pro", "high_quality_new", "niche_specialist",
      "power_seller", "negotiation_friendly", "responsive_kind",
      "balanced_low_activity">>

PersonaTypes == {PersonaOrder[i] : i \in 1..Len(PersonaOrder)}

PERSONA_PROTOTYPES ==
    [p \in PersonaTypes |->
        CASE p = "local_offline"         -> <<25, 0, 0, 25, 50>>
          [] p = "fast_shipping_online"  -> <<75, 25, 75, 50, 25>>
          [] p = "hybrid_trade"          -> <<50, 50, 50, 50, 50>>
          [] p = "trust_safety_pro"      -> <<100, 50, 50, 75, 25>>
          [] p = "high_quality_new"      -> <<50, 100, 25, 50, 25>>
          [] p = "niche_specialist"      -> <<50, 75, 50, 50, 25>>
          [] p = "power_seller"          -> <<50, 50, 50, 100, 25>>
          [] p = "negotiation_friendly"  -> <<25, 25, 25, 25, 100>>
          [] p = "responsive_kind"       -> <<75, 50, 50, 100, 25>>
          [] p = "balanced_low_activity" -> <<50, 50, 50, 25, 50>>]

\* MATCHING_WEIGHTS in hundredths (0.24, 0.18, 0.18, 0.22, 0.18)
MATCHING_WEIGHTS == <<24, 18, 18, 22, 18>>

-----------------------------------------------------------------------------
(* Fixed-point scales *)

\* confidences and similarities: 1.0 is ConfScale
ConfScale == 100 * 100

-----------------------------------------------------------------------------
(* agents/persona_classifier.py *)

\* a variant of the missing-file result: built-in rules instead of {}
BuiltInRules ==
    [persona_rules |->
        [p \in {"trust_safety_pro", "hybrid_trade", "local_offline"} |->
            [conditions |-> <<[kind |-> "min", axis |-> 4, threshold |-> 60]>>,
             min_confidence |-> None]],
     fallback_persona |-> None]

\* the rules.json the classifier was constructed with; a missing file loads {}
NoRules == [persona_rules |-> <<>>, fallback_persona |-> None]

\* a variant of the clamp whose upper end is exclusive
ClampBelow100(v) == Max2(0, Min2(99, v))

Clamp(v) == Max2(0, Min2(100, v))

\* normalize_slider_inputs: default 50 for an absent axis, clamp to [0,100]
normalize_slider_inputs(user_prefs) ==
    [k \in 1..5 |-> IF IsNone(user_prefs[k]) THEN 50 ELSE Clamp(Get(user_prefs[k]))]

\* calculate_l2_distance, squared: np.sqrt is strictly increasing on these sums
Dist2(v1, v2) ==
    LET sq(k) == (v1[k] - v2[k]) * (v1[k] - v2[k])
    IN sq(1) + sq(2) + sq(3) + sq(4) + sq(5)

\* a variant of the prototype loop in which an equal distance also wins
RECURSIVE ScanPrototypesLastWins(_, _, _, _)
ScanPrototypesLastWins(user_vector, i, best_persona, min_distance) ==
    IF i > Len(PersonaOrder) THEN [persona |-> best_persona, d2 |-> min_distance]
    ELSE LET d == Dist2(user_vector, PERSONA_PROTOTYPES[PersonaOrder[i]])
         IN IF min_distance < 0 \/ d <= min_distance
            THEN ScanPrototypesLastWins(user_vector, i + 1, PersonaOrder[i], d)
            ELSE ScanPrototypesLastWins(user_vector, i + 1, best_persona, min_distance)

\* the loop over PERSONA_PROTOTYPES.items(): a strictly smaller distance wins
RECURSIVE ScanPrototypes(_, _, _, _)
ScanPrototypes(user_vector, i, best_persona, min_distance) ==
    IF i > Len(PersonaOrder) THEN [persona |-> best_persona, d2 |-> min_distance]
    ELSE LET d == Dist2(user_vector, PERSONA_PROTOTYPES[PersonaOrder[i]])
         IN IF min_distance < 0 \/ d < min_distance
            THEN ScanPrototypes(user_vector, i + 1, PersonaOrder[i], d)
            ELSE ScanPrototypes(user_vector, i + 1, best_persona, min_distance)

\* min_distance starts at float('inf'), written -1 here
NearestPrototype(user_vector) == ScanPrototypes(user_vector, 1, "hybrid_trade", -1)

\* a variant of the distance confidence without the "1 -"
DistanceRatio(d2) == ISqrt(2000 * d2)

\* 1 - min_distance / sqrt(5 * 100**2), on ConfScale
DistanceConfidence(d2) == ConfScale - ISqrt(2000 * d2)

\* a variant of the rule loop that tests the min_ bounds only
ConditionsMetMinOnly(rule, user_vector) ==
    \A i \in 1..Len(rule.conditions) :
        LET c == rule.conditions[i]
        IN c.kind = "min" => ~(user_vector[c.axis] < c.threshold)

\* the loop over rule.items(): every min_/max_ bound of the rule holds
ConditionsMet(rule, user_vector) ==
    \A i \in 1..Len(rule.conditions) :
        LET c == rule.conditions[i]
        IN IF c.kind = "min" THEN ~(user_vector[c.axis] < c.threshold)
           ELSE ~(user_vector[c.axis] > c.threshold)

\* apply_rules_threshold: (persona, confidence, reason); ok is FALSE when
\* PersonaType(fallback) raises on a fallback name that is no persona
apply_rules_threshold(rules, user_vector, persona_candidates) ==
    LET near == NearestPrototype(user_vector)
        distance_confidence == DistanceConfidence(near.d2)
        persona_name == near.persona
        has_rule == persona_name \in DOMAIN rules.persona_rules
        rule == rules.persona_rules[persona_name]
        min_confidence ==
            IF IsNone(rule.min_confidence) THEN ConfScale \div 2
            ELSE Get(rule.min_confidence)
        kept == ConditionsMet(rule, user_vector)
                  /\ distance_confidence >= min_confidence
        fallback ==
            IF IsNone(rules.fallback_persona) THEN "hybrid_trade"
            ELSE Get(rules.fallback_persona)
        picked ==
            IF ~has_rule
            THEN [ok |-> TRUE, persona |-> persona_name,
                  confidence |-> distance_confidence, path |-> "distance"]
            ELSE IF kept
            THEN [ok |-> TRUE, persona |-> persona_name,
                  confidence |-> distance_confidence, path |-> "rule_match"]
            ELSE [ok |-> fallback \in PersonaTypes, persona |-> fallback,
                  confidence |-> ConfScale \div 2, path |-> "fallback"]
        blended == persona_candidates # <<>>
        rag_confidence ==
            CHOOSE m \in {persona_candidates[i] : i \in 1..Len(persona_candidates)} :
                \A i \in 1..Len(persona_candidates) : persona_candidates[i] <= m
    IN [ok |-> picked.ok,
        persona |-> picked.persona,
        confidence |-> IF blended
                       THEN (7 * picked.confidence + 3 * rag_confidence) \div 10
                       ELSE picked.confidence,
        reason |-> [path |-> picked.path, rag |-> blended]]

\* classify_persona: the PersonaClassification dict
classify_persona(rules, user_prefs, persona_candidates) ==
    LET user_vector == normalize_slider_inputs(user_prefs)
        r == apply_rules_threshold(rules, user_vector, persona_candidates)
    IN [ok |-> r.ok,
        result |->
            [persona_type |-> r.persona,
             confidence |-> r.confidence,
             vector |-> user_vector,
             matched_prototype |->
                 IF r.ok THEN PERSONA_PROTOTYPES[r.persona] ELSE <<>>,
             reason |-> r.reason,
             rag_candidates |-> persona_candidates]]

-----------------------------------------------------------------------------
(* services/database_service.py *)

\* Sellers carry avg_rating in tenths and response_time_hours in whole hours.
\* Pass-through text columns (seller_name, title, description, view of the
\* seller's rating) are not carried: nothing computes with them.

\* get_mock_sellers
MockSellers ==
    <<[seller_id |-> "seller_1", persona_vector |-> <<95, 80, 70, 85, 30>>,
       total_sales |-> 150, avg_rating |-> 48, response_time_hours |-> 2],
      [seller_id |-> "seller_2", persona_vector |-> <<75, 70, 90, 95, 40>>,
       total_sales |-> 200, avg_rating |-> 46, response_time_hours |-> 1],
      [seller_id |-> "seller_3", persona_vector |-> <<60, 60, 50, 70, 90>>,
       total_sales |-> 80, avg_rating |-> 42, response_time_hours |-> 4]>>

AllMockProducts ==
    <<[product_id |-> "prod_1", seller_id |-> "seller_1", price |-> 1200000,
       category |-> "phone", condition |-> "new", location |-> "seoul",
       view_count |-> 150, like_count |-> 25],
      [product_id |-> "prod_2", seller_id |-> "seller_2", price |-> 2500000,
       category |-> "laptop", condition |-> "used", location |-> "seoul",
       view_count |-> 200, like_count |-> 40],
      [product_id |-> "prod_3", seller_id |-> "seller_3", price |-> 150000,
       category |-> "shoes", condition |-> "like_new", location |-> "busan",
       view_count |-> 80, like_count |-> 15]>>

SeqFilter(seq, Keep(_)) ==
    LET RECURSIVE F(_)
        F(i) == IF i > Len(seq) THEN <<>>
                ELSE IF Keep(seq[i]) THEN <<seq[i]>> \o F(i + 1) ELSE F(i + 1)
    IN F(1)

SellerIds(sellers) == {sellers[i].seller_id : i \in 1..Len(sellers)}

\* get_mock_products: the mock products of the given sellers, filters ignored
get_mock_products(seller_ids) ==
    SeqFilter(AllMockProducts, LAMBDA p : p.seller_id \in seller_ids)

\* the row conversion of get_sellers_with_persona: "x if x else default"
\* turns a stored 0 (and NULL) into the default
OrDefault(v, d) == IF v = 0 THEN d ELSE v

SellerRow(row) ==
    [seller_id |-> row.seller_id,
     persona_vector |-> [k \in 1..5 |-> OrDefault(row.persona_vector[k], 50)],
     total_sales |-> OrDefault(row.total_sales, 0),
     avg_rating |-> OrDefault(row.avg_rating, 0),
     response_time_hours |-> OrDefault(row.response_time_hours, 24)]

\* get_sellers_with_persona(limit): SELECT ... LIMIT :limit
get_sellers_with_persona(db, limit) ==
    [i \in 1..Min2(limit, Len(db.sellers)) |-> SellerRow(db.sellers[i])]

\* the WHERE clause get_products_by_sellers builds from the truthy filters
MatchesFilters(p, filters) ==
    /\ TruthyNum(filters.price_min) => p.price >= Get(filters.price_min)
    /\ TruthyNum(filters.price_max) => p.price <= Get(filters.price_max)
    /\ TruthyStr(filters.category) => p.category = Get(filters.category)
    /\ TruthyStr(filters.location) => p.location = Get(filters.location)

\* get_products_by_sellers: no query at all for an empty seller list
get_products_by_sellers(db, seller_ids, filters) ==
    IF seller_ids = {} THEN <<>>
    ELSE SeqFilter(db.products,
                   LAMBDA p : p.seller_id \in seller_ids /\ MatchesFilters(p, filters))

-----------------------------------------------------------------------------
(* agents/product_matching.py *)

\* the filters dict when search_query is absent: {}
NoFilters == [price_min |-> None, price_max |-> None,
              category |-> None, location |-> None]

\* stable descending sort: list.sort(key=..., reverse=True) keeps equal keys
\* in their input order
SortDesc(seq, Key(_)) ==
    LET RECURSIVE Insert(_, _)
        Insert(sorted, x) ==
            IF sorted = <<>> THEN <<x>>
            ELSE IF Key(Head(sorted)) >= Key(x)
                 THEN <<Head(sorted)>> \o Insert(Tail(sorted), x)
                 ELSE <<x>> \o sorted
        RECURSIVE S(_)
        S(n) == IF n = 0 THEN <<>> ELSE Insert(S(n - 1), seq[n])
    IN S(Len(seq))

\* _calculate_persona_score, in 1/10000
calculate_persona_score(user_vector, seller_vector) ==
    LET term(k) == MATCHING_WEIGHTS[k] * (100 - Abs(user_vector[k] - seller_vector[k]))
        score == term(1) + term(2) + term(3) + term(4) + term(5)
        total_weight == MATCHING_WEIGHTS[1] + MATCHING_WEIGHTS[2] + MATCHING_WEIGHTS[3]
                          + MATCHING_WEIGHTS[4] + MATCHING_WEIGHTS[5]
    IN IF total_weight > 0 THEN (100 * score) \div total_weight ELSE 0

\* _calculate_seller_quality_score, in 1/30000:
\* 0.5*min(rating/5, 1) + 0.3*min(sales/1000, 1) + 0.2*max(0, 1 - hours/24)
calculate_seller_quality_score(seller) ==
    5 * Min2(60 * seller.avg_rating, 3000)
      + 3 * Min2(3 * seller.total_sales, 3000)
      + 2 * Max2(0, 3000 - 125 * seller.response_time_hours)

\* condition_scores.get(condition, 0.5), in tenths
ConditionScore(condition) ==
    CASE condition = "new" -> 10
      [] condition = "like_new" -> 8
      [] condition = "used" -> 6
      [] condition = "worn" -> 4
      [] OTHER -> 5

\* _calculate_product_feature_score, in 1/10000:
\* 0.4*min(views/1000, 1) + 0.3*min(likes/100, 1) + 0.3*condition_score
calculate_product_feature_score(product) ==
    4 * Min2(product.view_count, 1000)
      + 3 * Min2(10 * product.like_count, 1000)
      + 300 * ConditionScore(product.condition)

\* a variant of match_user_seller_persona that sorts on persona_score
match_user_seller_persona_by_persona(user_persona, sellers) ==
    LET score(seller) ==
            LET persona_score == calculate_persona_score(user_persona, seller.persona_vector)
                quality_score == calculate_seller_quality_score(seller)
            IN [seller_id |-> seller.seller_id,
                persona_score |-> persona_score,
                quality_score |-> quality_score,
                final_score |-> 21 * persona_score + 3 * quality_score,
                persona_vector |-> seller.persona_vector,
                total_sales |-> seller.total_sales,
                avg_rating |-> seller.avg_rating,
                response_time_hours |-> seller.response_time_hours]
        seller_scores == [i \in 1..Len(sellers) |-> score(sellers[i])]
    IN SortDesc(seller_scores, LAMBDA x : x.persona_score)

\* match_user_seller_persona: final_score = 0.7*persona + 0.3*quality, in 1/300000
match_user_seller_persona(user_persona, sellers) ==
    LET score(seller) ==
            LET persona_score == calculate_persona_score(user_persona, seller.persona_vector)
                quality_score == calculate_seller_quality_score(seller)
            IN [seller_id |-> seller.seller_id,
                persona_score |-> persona_score,
                quality_score |-> quality_score,
                final_score |-> 21 * persona_score + 3 * quality_score,
                persona_vector |-> seller.persona_vector,
                total_sales |-> seller.total_sales,
                avg_rating |-> seller.avg_rating,
                response_time_hours |-> seller.response_time_hours]
        seller_scores == [i \in 1..Len(sellers) |-> score(sellers[i])]
    IN SortDesc(seller_scores, LAMBDA x : x.final_score)

\* a variant of match_seller_product_features that sorts on product_feature_score
match_seller_product_features_by_feature(seller_scores, products) ==
    LET item(seller_score, product) ==
            LET product_feature_score == calculate_product_feature_score(product)
            IN [product_id |-> product.product_id,
                seller_id |-> seller_score.seller_id,
                price |-> product.price,
                category |-> product.category,
                condition |-> product.condition,
                location |-> product.location,
                seller_persona_score |-> seller_score.persona_score,
                seller_quality_score |-> seller_score.quality_score,
                product_feature_score |-> product_feature_score,
                final_item_score |-> seller_score.final_score + 20 * product_feature_score,
                seller_rating |-> seller_score.avg_rating,
                view_count |-> product.view_count,
                like_count |-> product.like_count]
        of_seller(seller_score) ==
            LET seller_products ==
                    SeqFilter(products, LAMBDA p : p.seller_id = seller_score.seller_id)
            IN [j \in 1..Len(seller_products) |-> item(seller_score, seller_products[j])]
        RECURSIVE all(_)
        all(i) == IF i > Len(seller_scores) THEN <<>>
                  ELSE of_seller(seller_scores[i]) \o all(i + 1)
    IN SortDesc(all(1), LAMBDA x : x.product_feature_score)

\* match_seller_product_features:
\* final_item_score = 0.6*seller final + 0.4*feature, in 1/500000
match_seller_product_features(seller_scores, products) ==
    LET item(seller_score, product) ==
            LET product_feature_score == calculate_product_feature_score(product)
            IN [product_id |-> product.product_id,
                seller_id |-> seller_score.seller_id,
                price |-> product.price,
                category |-> product.category,
                condition |-> product.condition,
                location |-> product.location,
                seller_persona_score |-> seller_score.persona_score,
                seller_quality_score |-> seller_score.quality_score,
                product_feature_score |-> product_feature_score,
                final_item_score |-> seller_score.final_score + 20 * product_feature_score,
                seller_rating |-> seller_score.avg_rating,
                view_count |-> product.view_count,
                like_count |-> product.like_count]
        of_seller(seller_score) ==
            LET seller_products ==
                    SeqFilter(products, LAMBDA p : p.seller_id = seller_score.seller_id)
            IN [j \in 1..Len(seller_products) |-> item(seller_score, seller_products[j])]
        RECURSIVE all(_)
        all(i) == IF i > Len(seller_scores) THEN <<>>
                  ELSE of_seller(seller_scores[i]) \o all(i + 1)
    IN SortDesc(all(1), LAMBDA x : x.final_item_score)

\* get_products_for_matching: the database, or the mock data when a query raises
get_products_for_matching(db, filters) ==
    IF db.kind = "rows"
    THEN LET sellers == get_sellers_with_persona(db, 50)
         IN [sellers |-> sellers,
             products |-> get_products_by_sellers(db, SellerIds(sellers), filters)]
    ELSE [sellers |-> MockSellers,
          products |-> get_mock_products(SellerIds(MockSellers))]

-----------------------------------------------------------------------------
(* agents/ranker.py *)

\* normalized channel scores: 1.0 is NormScale
NormScale == 10 * 100
\* weighted, diversity and final scores: 1.0 is 10 * (2 * ConfScale) * NormScale
FinalScale == 10 * (2 * ConfScale) * NormScale

SeqMin(seq) == CHOOSE m \in {seq[i] : i \in 1..Len(seq)} : \A i \in 1..Len(seq) : m <= seq[i]
SeqMax(seq) == CHOOSE m \in {seq[i] : i \in 1..Len(seq)} : \A i \in 1..Len(seq) : m >= seq[i]

\* a variant of normalize_list that scales by the maximum alone
normalize_list_by_max(scores) ==
    IF scores = <<>> \/ SeqMax(scores) = SeqMin(scores)
    THEN [i \in 1..Len(scores) |-> NormScale \div 2]
    ELSE [i \in 1..Len(scores) |-> (scores[i] * NormScale) \div SeqMax(scores)]

\* normalize_list: 0.5 for an empty or constant channel, min-max otherwise
normalize_list(scores) ==
    IF scores = <<>> \/ SeqMax(scores) = SeqMin(scores)
    THEN [i \in 1..Len(scores) |-> NormScale \div 2]
    ELSE [i \in 1..Len(scores) |->
            ((scores[i] - SeqMin(scores)) * NormScale)
                \div (SeqMax(scores) - SeqMin(scores))]

\* item.copy() followed by item[k] = v for every key k of the record new
With(item, new) == new @@ item

\* _normalize_scores: each item copied with its three normalized channels
normalize_scores(seller_item_scores) ==
    LET norm_persona ==
            normalize_list([i \in 1..Len(seller_item_scores) |->
                              seller_item_scores[i].seller_persona_score])
        norm_quality ==
            normalize_list([i \in 1..Len(seller_item_scores) |->
                              seller_item_scores[i].seller_quality_score])
        norm_feature ==
            normalize_list([i \in 1..Len(seller_item_scores) |->
                              seller_item_scores[i].product_feature_score])
    IN [i \in 1..Len(seller_item_scores) |->
          With(seller_item_scores[i],
               [norm_persona_score |-> norm_persona[i],
                norm_quality_score |-> norm_quality[i],
                norm_feature_score |-> norm_feature[i]])]

\* persona_weights.get(persona_type, default), in tenths
PersonaWeights(persona_type) ==
    CASE persona_type = "trust_safety_pro"      -> [persona |-> 6, quality |-> 3, feature |-> 1]
      [] persona_type = "high_quality_new"      -> [persona |-> 4, quality |-> 4, feature |-> 2]
      [] persona_type = "fast_shipping_online"  -> [persona |-> 5, quality |-> 3, feature |-> 2]
      [] persona_type = "local_offline"         -> [persona |-> 6, quality |-> 2, feature |-> 2]
      [] persona_type = "negotiation_friendly"  -> [persona |-> 5, quality |-> 2, feature |-> 3]
      [] persona_type = "power_seller"          -> [persona |-> 4, quality |-> 4, feature |-> 2]
      [] persona_type = "responsive_kind"       -> [persona |-> 5, quality |-> 3, feature |-> 2]
      [] persona_type = "niche_specialist"      -> [persona |-> 4, quality |-> 3, feature |-> 3]
      [] persona_type = "balanced_low_activity" -> [persona |-> 4, quality |-> 3, feature |-> 3]
      [] persona_type = "hybrid_trade"          -> [persona |-> 4, quality |-> 3, feature |-> 3]
      [] OTHER                                  -> [persona |-> 4, quality |-> 3, feature |-> 3]

\* _apply_persona_weights: weights scaled by 0.5 + confidence * 0.5
apply_persona_weights(normalized_scores, persona_classification) ==
    LET base == PersonaWeights(persona_classification.persona_type)
        confidence_factor == ConfScale + persona_classification.confidence
        weights == [persona |-> base.persona * confidence_factor,
                    quality |-> base.quality * confidence_factor,
                    feature |-> base.feature * confidence_factor]
    IN [i \in 1..Len(normalized_scores) |->
          LET item == normalized_scores[i]
          IN With(item,
                  [weighted_score |-> weights.persona * item.norm_persona_score
                                        + weights.quality * item.norm_quality_score
                                        + weights.feature * item.norm_feature_score,
                   persona_weights |-> weights])]

\* _apply_diversity_bonus.  A list of at most one item is returned as it is:
\* its items get no diversity_bonus and no diversity_score key.
apply_diversity_bonus(weighted_scores) ==
    IF Len(weighted_scores) <= 1 THEN weighted_scores
    ELSE LET n == Len(weighted_scores)
             unique_categories ==
                 Cardinality({weighted_scores[i].category : i \in 1..n})
             unique_sellers ==
                 Cardinality({weighted_scores[i].seller_id : i \in 1..n})
             \* 0.1 * (unique_categories/n + unique_sellers/n) / 2 * (1 - i/n)
             rank_bonus(i) ==
                 ((unique_categories + unique_sellers) * (n - i) * (FinalScale \div 20))
                     \div (n * n)
         IN [i \in 1..n |->
               With(weighted_scores[i],
                    [diversity_bonus |-> rank_bonus(i - 1),
                     diversity_score |->
                         weighted_scores[i].weighted_score + rank_bonus(i - 1)])]

\* a variant of _calculate_final_scores without the final sort
calculate_final_scores_unsorted(diversity_scores) ==
    LET final(item) ==
            With(item,
                 [final_score |-> item.diversity_score,
                  ranking_factors |->
                      [persona_match |-> item.norm_persona_score,
                       seller_quality |-> item.norm_quality_score,
                       product_features |-> item.norm_feature_score,
                       diversity_bonus |-> item.diversity_bonus,
                       persona_weights |-> item.persona_weights]])
        ok == \A i \in 1..Len(diversity_scores) :
                  {"diversity_score", "diversity_bonus"} \subseteq DOMAIN diversity_scores[i]
    IN IF ~ok THEN [ok |-> FALSE, items |-> <<>>]
       ELSE [ok |-> TRUE,
             items |-> [i \in 1..Len(diversity_scores) |-> final(diversity_scores[i])]]

\* _calculate_final_scores: item['diversity_score'] raises KeyError on an item
\* without the key (ok FALSE); otherwise the items sorted by final_score
calculate_final_scores(diversity_scores) ==
    LET final(item) ==
            With(item,
                 [final_score |-> item.diversity_score,
                  ranking_factors |->
                      [persona_match |-> item.norm_persona_score,
                       seller_quality |-> item.norm_quality_score,
                       product_features |-> item.norm_feature_score,
                       diversity_bonus |-> item.diversity_bonus,
                       persona_weights |-> item.persona_weights]])
        ok == \A i \in 1..Len(diversity_scores) :
                  {"diversity_score", "diversity_bonus"} \subseteq DOMAIN diversity_scores[i]
    IN IF ~ok THEN [ok |-> FALSE, items |-> <<>>]
       ELSE [ok |-> TRUE,
             items |-> SortDesc([i \in 1..Len(diversity_scores) |->
                                   final(diversity_scores[i])],
                                LAMBDA x : x.final_score)]

\* fuse_scores
fuse_scores(seller_item_scores, persona_classification) ==
    IF seller_item_scores = <<>> THEN [ok |-> TRUE, items |-> <<>>]
    ELSE calculate_final_scores(
             apply_diversity_bonus(
                 apply_persona_weights(normalize_scores(seller_item_scores),
                                       persona_classification)))

\* ChainOfThought.generate_explanation (utils/chain_of_thought.py): a rendered
\* summary of the recorded trace; it names the persona and the top result
generate_explanation(final_scores, persona_classification) ==
    [persona_type |-> persona_classification.persona_type,
     total_items |-> Len(final_scores),
     top_item |-> IF final_scores = <<>> THEN None
                  ELSE Some(final_scores[1].product_id)]

-----------------------------------------------------------------------------
(* agents/query_generator.py *)

\* create_filters: only the truthy request fields become filters
create_filters(user_input) ==
    [price_min |-> IF TruthyNum(user_input.price_min) THEN user_input.price_min ELSE None,
     price_max |-> IF TruthyNum(user_input.price_max) THEN user_input.price_max ELSE None,
     category |-> IF TruthyStr(user_input.category) THEN user_input.category ELSE None,
     location |-> IF TruthyStr(user_input.location) THEN user_input.location ELSE None]

\* enhance_query_for_persona: every persona has a non-empty enhancement, which
\* is appended to the original query
enhance_query_for_persona(original_query, persona_type) ==
    IF persona_type \in PersonaTypes THEN <<original_query, persona_type>>
    ELSE <<original_query>>

-----------------------------------------------------------------------------
(* The RecommendationState and the stage nodes *)

\* an error message f"{text}{arg}"; it is empty only when both parts are
Msg(text, arg) == [text |-> text, arg |-> arg]
EmptyMsg == Msg("", "")
\* truthiness of an Optional error message
TruthyMsg(o) == o # <<>> /\ o[1] # EmptyMsg

\* graphs/recommendation_graph.py create_initial_state (session_id, timestamp
\* and execution_start_time are written once here and only read afterwards);
\* search_query is a key the initial dict does not have
create_initial_state(user_input) ==
    [user_input |-> user_input,
     persona_classification |-> None,
     seller_item_scores |-> None,
     final_item_scores |-> None,
     sql_query |-> None,
     ranking_explanation |-> None,
     search_query |-> None,
     current_step |-> "start",
     completed_steps |-> <<>>,
     error_message |-> None,
     execution_time |-> None]

\* a variant of the except branch that also logs the fault in completed_steps,
\* as Orchestrator.handle_error does
TrappedAndLogged(s, text, arg) ==
    [state |-> [s EXCEPT !.error_message = Some(Msg(text, arg)),
                         !.current_step = "error",
                         !.completed_steps = Append(@, "error_handling")],
     outcome |-> "trapped"]

\* the except branch every stage node shares: the fault becomes state
Trapped(s, text, arg) ==
    [state |-> [s EXCEPT !.error_message = Some(Msg(text, arg)),
                         !.current_step = "error"],
     outcome |-> "trapped"]

Returned(s) == [state |-> s, outcome |-> "ok"]

\* persona_classifier_node; env.fault: a collaborator raised while the
\* classifier was built or run (rules.json unreadable, vector store I/O)
persona_classifier_node(s, env) ==
    LET c == classify_persona(env.rules, s.user_input.sliders, env.rag)
    IN IF env.fault THEN Trapped(s, "persona classification error: ", "collaborator")
       ELSE IF ~c.ok THEN Trapped(s, "persona classification error: ", "fallback persona")
       ELSE Returned([s EXCEPT !.persona_classification = Some(c.result),
                               !.current_step = "persona_classified",
                               !.completed_steps = Append(@, "persona_classification")])

\* the filters product_matching_node hands to get_products_for_matching:
\* search_query.get("filters", {}) if search_query else {}
matching_filters(s) ==
    IF TruthyDict(s.search_query) THEN Get(s.search_query).filters ELSE NoFilters

\* a variant of product_matching_node without the empty-collection check
product_matching_node_unchecked(s, db) ==
    IF ~TruthyDict(s.persona_classification)
    THEN [state |-> [s EXCEPT !.error_message =
                                  Some(Msg("product matching error: ",
                                           "persona classification missing")),
                              !.current_step = "error"],
          outcome |-> "trapped"]
    ELSE
    LET filters == matching_filters(s)
        data == get_products_for_matching(db, filters)
        user_persona == Get(s.persona_classification).vector
        seller_scores == match_user_seller_persona(user_persona, data.sellers)
        seller_item_scores == match_seller_product_features(seller_scores, data.products)
    IN IF db.kind = "engine_error"
       THEN [state |-> [s EXCEPT !.error_message =
                                     Some(Msg("product matching error: ", "collaborator")),
                                 !.current_step = "error"],
             outcome |-> "trapped"]
       ELSE [state |-> [s EXCEPT !.seller_item_scores = Some(seller_item_scores),
                                 !.current_step = "products_matched",
                                 !.completed_steps = Append(@, "product_matching")],
             outcome |-> "ok"]

\* product_matching_node; db.kind: "engine_error" (DatabaseService() raised),
\* "query_error" (a query raised: mock data) or "rows" (the tables answered)
product_matching_node(s, db) ==
    IF ~TruthyDict(s.persona_classification)
    THEN Trapped(s, "product matching error: ", "persona classification missing")
    ELSE
    LET filters == matching_filters(s)
        data == get_products_for_matching(db, filters)
        user_persona == Get(s.persona_classification).vector
        seller_scores == match_user_seller_persona(user_persona, data.sellers)
        seller_item_scores == match_seller_product_features(seller_scores, data.products)
    IN IF db.kind = "engine_error"
       THEN Trapped(s, "product matching error: ", "collaborator")
       ELSE IF data.sellers = <<>> \/ data.products = <<>>
       THEN Trapped(s, "product matching error: ", "no sellers or products")
       ELSE Returned([s EXCEPT !.seller_item_scores = Some(seller_item_scores),
                               !.current_step = "products_matched",
                               !.completed_steps = Append(@, "product_matching")])

\* a variant of ranker_node that ranks a missing seller_item_scores as an
\* empty list instead of failing
ranker_node_lenient(s) ==
    IF ~TruthyDict(s.persona_classification)
    THEN [state |-> [s EXCEPT !.error_message =
                                  Some(Msg("ranking error: ", "persona classification missing")),
                              !.current_step = "error"],
          outcome |-> "trapped"]
    ELSE IF ~TruthyList(s.seller_item_scores)
    THEN [state |-> [s EXCEPT !.final_item_scores = Some(<<>>),
                              !.current_step = "products_ranked",
                              !.completed_steps = Append(@, "ranking")],
          outcome |-> "ok"]
    ELSE
    LET fused == fuse_scores(Get(s.seller_item_scores), Get(s.persona_classification))
        explanation == generate_explanation(fused.items, Get(s.persona_classification))
    IN IF ~fused.ok
       THEN [state |-> [s EXCEPT !.error_message =
                                     Some(Msg("ranking error: ", "diversity_score")),
                                 !.current_step = "error"],
             outcome |-> "trapped"]
       ELSE [state |-> [s EXCEPT !.final_item_scores = Some(fused.items),
                                 !.ranking_explanation = Some(explanation),
                                 !.current_step = "products_ranked",
                                 !.completed_steps = Append(@, "ranking")],
             outcome |-> "ok"]

\* a variant of ranker_node that notes the weights it applied in the
\* persona_classification dict
ranker_node_annotating(s) ==
    IF ~TruthyList(s.seller_item_scores)
    THEN [state |-> [s EXCEPT !.error_message =
                                  Some(Msg("ranking error: ", "no matched products")),
                              !.current_step = "error"],
          outcome |-> "trapped"]
    ELSE IF ~TruthyDict(s.persona_classification)
    THEN [state |-> [s EXCEPT !.error_message =
                                  Some(Msg("ranking error: ", "persona classification missing")),
                              !.current_step = "error"],
          outcome |-> "trapped"]
    ELSE
    LET fused == fuse_scores(Get(s.seller_item_scores), Get(s.persona_classification))
        explanation == generate_explanation(fused.items, Get(s.persona_classification))
        annotated ==
            [applied_weights |->
                 PersonaWeights(Get(s.persona_classification).persona_type)]
              @@ Get(s.persona_classification)
    IN IF ~fused.ok
       THEN [state |-> [s EXCEPT !.error_message =
                                     Some(Msg("ranking error: ", "diversity_score")),
                                 !.current_step = "error"],
             outcome |-> "trapped"]
       ELSE [state |-> [s EXCEPT !.persona_classification = Some(annotated),
                                 !.final_item_scores = Some(fused.items),
                                 !.ranking_explanation = Some(explanation),
                                 !.current_step = "products_ranked",
                                 !.completed_steps = Append(@, "ranking")],
             outcome |-> "ok"]

\* ranker_node
ranker_node(s) ==
    IF ~TruthyList(s.seller_item_scores)
    THEN Trapped(s, "ranking error: ", "no matched products")
    ELSE IF ~TruthyDict(s.persona_classification)
    THEN Trapped(s, "ranking error: ", "persona classification missing")
    ELSE
    LET fused == fuse_scores(Get(s.seller_item_scores), Get(s.persona_classification))
        explanation == generate_explanation(fused.items, Get(s.persona_classification))
    IN IF ~fused.ok THEN Trapped(s, "ranking error: ", "diversity_score")
       ELSE Returned([s EXCEPT !.final_item_scores = Some(fused.items),
                               !.ranking_explanation = Some(explanation),
                               !.current_step = "products_ranked",
                               !.completed_steps = Append(@, "ranking")])

\* a variant of query_generator_node that builds the query from the raw
\* search text when there is no persona_classification
query_generator_node_unguarded(s) ==
    IF IsNone(s.user_input.search_query)
    THEN [state |-> [s EXCEPT !.error_message =
                                  Some(Msg("query generation error: ", "search_query")),
                              !.current_step = "error"],
          outcome |-> "trapped"]
    ELSE
    LET original_query == Get(s.user_input.search_query)
    IN [state |-> [s EXCEPT !.search_query =
                       Some([original_query |-> original_query,
                             enhanced_query |->
                                 IF TruthyDict(s.persona_classification)
                                 THEN enhance_query_for_persona(
                                          original_query,
                                          Get(s.persona_classification).persona_type)
                                 ELSE <<original_query>>,
                             filters |-> create_filters(s.user_input)]),
                   !.current_step = "query_generated",
                   !.completed_steps = Append(@, "query_generation")],
        outcome |-> "ok"]

\* query_generator_node; user_input["search_query"] raises KeyError when the
\* key is absent
query_generator_node(s) ==
    IF ~TruthyDict(s.persona_classification)
    THEN Trapped(s, "query generation error: ", "persona classification missing")
    ELSE IF IsNone(s.user_input.search_query)
    THEN Trapped(s, "query generation error: ", "search_query")
    ELSE
    LET original_query == Get(s.user_input.search_query)
        persona_type == Get(s.persona_classification).persona_type
    IN Returned([s EXCEPT !.search_query =
                              Some([original_query |-> original_query,
                                    enhanced_query |->
                                        enhance_query_for_persona(original_query, persona_type),
                                    filters |-> create_filters(s.user_input)]),
                          !.current_step = "query_generated",
                          !.completed_steps = Append(@, "query_generation")])

-----------------------------------------------------------------------------
(* agents/router.py *)

\* a variant of should_continue that does not stop on "query_generated"
should_continue_past_query(s) ==
    IF TruthyMsg(s.error_message) THEN "end"
    ELSE IF s.current_step = "completed" THEN "end"
    ELSE IF s.current_step = "error" THEN "end"
    ELSE "continue"

\* Orchestrator.should_continue
should_continue(s) ==
    IF TruthyMsg(s.error_message) THEN "end"
    ELSE IF s.current_step = "query_generated" THEN "end"
    ELSE IF s.current_step = "completed" THEN "end"
    ELSE IF s.current_step = "error" THEN "end"
    ELSE "continue"

\* a variant of get_next_step that restarts the pipeline from an unknown step
get_next_step_restarting(current_step) ==
    IF current_step = "start" THEN Some("persona_classification")
    ELSE IF current_step = "persona_classified" THEN Some("product_matching")
    ELSE IF current_step = "products_matched" THEN Some("ranking")
    ELSE IF current_step = "products_ranked" THEN Some("query_generation")
    ELSE Some("persona_classification")

\* Orchestrator.get_next_step: Optional[str]
get_next_step(current_step) ==
    IF current_step = "start" THEN Some("persona_classification")
    ELSE IF current_step = "persona_classified" THEN Some("product_matching")
    ELSE IF current_step = "products_matched" THEN Some("ranking")
    ELSE IF current_step = "products_ranked" THEN Some("query_generation")
    ELSE None

\* Orchestrator.validate_step_completion
validate_step_completion(s, step) ==
    IF step = "persona_classification" THEN ~IsNone(s.persona_classification)
    ELSE IF step = "product_matching" THEN ~IsNone(s.seller_item_scores)
    ELSE IF step = "ranking" THEN ~IsNone(s.final_item_scores)
    ELSE IF step = "query_generation" THEN ~IsNone(s.sql_query)
    ELSE FALSE

\* Orchestrator.handle_error
handle_error(s, text, arg) ==
    [s EXCEPT !.error_message = Some(Msg(text, arg)),
              !.current_step = "error",
              !.completed_steps = Append(@, "error_handling")]

\* a variant of router_node that leaves a state with an unknown step as it is
router_node_ignoring_unknown(s) ==
    LET current_step == s.current_step
        next_step == get_next_step(current_step)
    IN IF current_step = "error" THEN s
       ELSE IF current_step = "completed" THEN s
       ELSE IF IsNone(next_step) THEN s
       ELSE IF Get(next_step) = "query_generation" /\ TruthyDict(s.sql_query)
       THEN [s EXCEPT !.current_step = "completed",
                      !.completed_steps = Append(@, "query_generation"),
                      !.execution_time = Some("elapsed")]
       ELSE [s EXCEPT !.current_step = Get(next_step)]

\* a variant of router_node without the early return on "error"
router_node_rechecking(s) ==
    LET current_step == s.current_step
        next_step == get_next_step(current_step)
    IN IF current_step = "completed" THEN s
       ELSE IF IsNone(next_step) THEN handle_error(s, "unknown step: ", current_step)
       ELSE IF Get(next_step) = "query_generation" /\ TruthyDict(s.sql_query)
       THEN [s EXCEPT !.current_step = "completed",
                      !.completed_steps = Append(@, "query_generation"),
                      !.execution_time = Some("elapsed")]
       ELSE [s EXCEPT !.current_step = Get(next_step)]

\* router_node
router_node(s) ==
    LET current_step == s.current_step
        next_step == get_next_step(current_step)
    IN IF current_step = "error" THEN s
       ELSE IF current_step = "completed" THEN s
       ELSE IF IsNone(next_step) THEN handle_error(s, "unknown step: ", current_step)
       ELSE IF Get(next_step) = "query_generation" /\ TruthyDict(s.sql_query)
       THEN [s EXCEPT !.current_step = "completed",
                      !.completed_steps = Append(@, "query_generation"),
                      !.execution_time = Some("elapsed")]
       ELSE [s EXCEPT !.current_step = Get(next_step)]

-----------------------------------------------------------------------------
(* graphs/recommendation_graph.py *)

END == "END"

\* add_conditional_edges("router", lambda state: state.get("current_step", ""), {...});
\* a value outside the mapping is no edge of the graph
RouterEdge(s) ==
    CASE s.current_step = "persona_classification" -> "persona_classifier"
      [] s.current_step = "query_generation" -> "query_generator"
      [] s.current_step = "product_matching" -> "product_matching"
      [] s.current_step = "ranking" -> "ranker"
      [] s.current_step = "completed" -> END
      [] s.current_step = "error" -> END
      [] OTHER -> "no_edge"

StageNodes == {"persona_classifier", "product_matching", "ranker", "query_generator"}

-----------------------------------------------------------------------------
(* api/routes.py *)

\* a variant of get_recommendations that answers with whatever the run left
get_recommendations_degraded(result) ==
    [status |-> 200, detail |-> None,
     products |-> Some(<<>>),
     persona_classification |->
         IF TruthyDict(result.persona_classification)
         THEN Some([persona_type |-> Get(result.persona_classification).persona_type,
                    confidence |-> Get(result.persona_classification).confidence,
                    vector |-> Get(result.persona_classification).vector])
         ELSE None,
     search_query |-> result.search_query]

\* get_recommendations, once recommendation_graph.invoke has returned result:
\* HTTPException(500, detail=error_message) when error_message is truthy,
\* the RecommendationResponse otherwise.  result has no ranking_result key,
\* so products stays [].
get_recommendations(result) ==
    IF TruthyMsg(result.error_message)
    THEN [status |-> 500, detail |-> result.error_message,
          products |-> None, persona_classification |-> None, search_query |-> None]
    ELSE [status |-> 200, detail |-> None,
          products |-> Some(<<>>),
          persona_classification |->
              IF TruthyDict(result.persona_classification)
              THEN Some([persona_type |-> Get(result.persona_classification).persona_type,
                         confidence |-> Get(result.persona_classification).confidence,
                         vector |-> Get(result.persona_classification).vector])
              ELSE None,
          search_query |-> result.search_query]

-----------------------------------------------------------------------------
(* Inputs *)

\* how many entries completed_steps may hold before a host stops invoking
MaxLog == 4

NoSliders == <<None, None, None, None, None>>

\* what /recommend builds from a request: no slider keys at all
ApiInput ==
    [search_query |-> Some("iphone"), sliders |-> NoSliders,
     price_min |-> Some(100000), price_max |-> None,
     category |-> Some("phone"), location |-> None]

\* a host's own input: the trust_safety_pro prototype, no filters
TrustInput ==
    [search_query |-> Some("macbook"),
     sliders |-> <<Some(100), Some(50), Some(50), Some(75), Some(25)>>,
     price_min |-> None, price_max |-> None, category |-> None, location |-> None]

\* a host's own input without search_query, sliders partly out of range
BareInput ==
    [search_query |-> None,
     sliders |-> <<Some(120), Some(-10), None, Some(30), Some(50)>>,
     price_min |-> Some(0), price_max |-> None, category |-> Some(""), location |-> None]

UserInputs == {ApiInput, TrustInput, BareInput}

\* a rules.json with two persona rules and the default fallback
SomeRules ==
    [persona_rules |->
        [p \in {"trust_safety_pro", "hybrid_trade"} |->
            IF p = "trust_safety_pro"
            THEN [conditions |-> <<[kind |-> "min", axis |-> 1, threshold |-> 80]>>,
                  min_confidence |-> Some(7000)]
            ELSE [conditions |-> <<[kind |-> "max", axis |-> 5, threshold |-> 40]>>,
                  min_confidence |-> None]],
     fallback_persona |-> None]

RulesChoices == {NoRules, SomeRules}

\* what the retrieval step answers: no candidate, or candidate similarities
RagChoices == {<<>>, <<8000, 6000>>}

\* what the retrieval step can answer on another run over the same vector
\* store: the query embedding is np.random.rand(100) on every call, so the
\* same candidates come back with other similarities
OtherDraws(rag) == {rag, [i \in 1..Len(rag) |-> rag[i] \div 2]}

ShopSellers ==
    <<[seller_id |-> "s1", persona_vector |-> <<90, 60, 50, 80, 20>>,
       total_sales |-> 500, avg_rating |-> 45, response_time_hours |-> 3],
      [seller_id |-> "s2", persona_vector |-> <<40, 50, 0, 30, 60>>,
       total_sales |-> 0, avg_rating |-> 38, response_time_hours |-> 12]>>

ShopProducts ==
    <<[product_id |-> "p1", seller_id |-> "s1", price |-> 900000,
       category |-> "phone", condition |-> "new", location |-> "seoul",
       view_count |-> 300, like_count |-> 20],
      [product_id |-> "p2", seller_id |-> "s2", price |-> 50000,
       category |-> "shoes", condition |-> "worn", location |-> "busan",
       view_count |-> 2000, like_count |-> 150],
      [product_id |-> "p3", seller_id |-> "s1", price |-> 700000,
       category |-> "phone", condition |-> "used", location |-> "seoul",
       view_count |-> 0, like_count |-> 0]>>

Db(kind, sellers, products) == [kind |-> kind, sellers |-> sellers, products |-> products]

DbChoices ==
    {Db("engine_error", <<>>, <<>>),
     Db("query_error", <<>>, <<>>),
     Db("rows", <<>>, ShopProducts),
     Db("rows", ShopSellers, <<>>),
     Db("rows", SubSeq(ShopSellers, 1, 1), SubSeq(ShopProducts, 1, 1)),
     Db("rows", ShopSellers, ShopProducts)}

PersonaEnvs ==
    [kind : {"classifier"}, fault : {FALSE}, rules : RulesChoices, rag : RagChoices]
      \cup [kind : {"classifier"}, fault : {TRUE}, rules : {NoRules}, rag : {<<>>}]

-----------------------------------------------------------------------------
(* Spec: an external host invokes router_node, the stage nodes and           *)
(* should_continue one at a time, in any order, on the state that            *)
(* create_initial_state built                                                *)

\* a call record: env is what the call's collaborators answered (the rules and
\* retrieval candidates, or the database), NoEnv for a call that has none
NoEnv == [kind |-> "none"]
Called(op, outcome, env) == [op |-> op, outcome |-> outcome, env |-> env]

\* the host-side bookkeeping of one node call that ended with result r
HostCall(op, r, env) ==
    /\ Len(state.completed_steps) < MaxLog
    /\ state' = r.state
    /\ last' = Called(op, r.outcome, env)
    /\ decision' = None
    /\ UNCHANGED <<node, trace, response, returned>>

Init ==
    /\ \E ui \in UserInputs : state = create_initial_state(ui)
    /\ last = Called("init", "ok", NoEnv)
    /\ node = "host"
    /\ trace = <<>>
    /\ response = None
    /\ decision = None
    /\ returned = None

HostRouter == HostCall("router", Returned(router_node(state)), NoEnv)

HostPersonaClassifier ==
    \E env \in PersonaEnvs : HostCall("persona_classifier", persona_classifier_node(state, env), env)

HostProductMatching ==
    \E db \in DbChoices : HostCall("product_matching", product_matching_node(state, db), db)

HostRanker == HostCall("ranker", ranker_node(state), NoEnv)

HostQueryGenerator == HostCall("query_generator", query_generator_node(state), NoEnv)

HostShouldContinue ==
    /\ decision' = Some(should_continue(state))
    /\ last' = Called("should_continue", "ok", NoEnv)
    /\ UNCHANGED <<state, node, trace, response, returned>>

Next ==
    \/ HostRouter
    \/ HostPersonaClassifier
    \/ HostProductMatching
    \/ HostRanker
    \/ HostQueryGenerator
    \/ HostShouldContinue

Spec == Init /\ [][Next]_vars

-----------------------------------------------------------------------------
(* GraphSpec: recommendation_graph.invoke(create_initial_state(...)) as the  *)
(* /recommend handler runs it, then the handler's answer                     *)

GraphStep(name, r, env, next) ==
    /\ node = name
    /\ state' = r.state
    /\ last' = Called(name, r.outcome, env)
    /\ node' = next
    /\ trace' = Append(trace, Called(name, r.outcome, env))
    /\ UNCHANGED <<response, decision, returned>>

GraphInit ==
    /\ \E ui \in UserInputs : state = create_initial_state(ui)
    /\ last = Called("init", "ok", NoEnv)
    /\ node = "router"
    /\ trace = <<>>
    /\ response = None
    /\ decision = None
    /\ returned = None

GraphRouter ==
    GraphStep("router", Returned(router_node(state)), NoEnv, RouterEdge(router_node(state)))

GraphPersonaClassifier ==
    \E env \in PersonaEnvs :
        GraphStep("persona_classifier", persona_classifier_node(state, env), env, "router")

GraphProductMatching ==
    \E db \in DbChoices :
        GraphStep("product_matching", product_matching_node(state, db), db, "router")

GraphRanker == GraphStep("ranker", ranker_node(state), NoEnv, "router")

GraphQueryGenerator ==
    GraphStep("query_generator", query_generator_node(state), NoEnv, "router")

Respond ==
    /\ node = END
    /\ response = None
    /\ response' = Some(get_recommendations(state))
    /\ last' = Called("respond", "ok", NoEnv)
    /\ UNCHANGED <<state, node, trace, decision, returned>>

GraphNext ==
    \/ GraphRouter
    \/ GraphPersonaClassifier
    \/ GraphProductMatching
    \/ GraphRanker
    \/ GraphQueryGenerator
    \/ Respond

GraphSpec == GraphInit /\ [][GraphNext]_vars

-----------------------------------------------------------------------------
(* FnSpec: router_node, should_continue and the handler's response on any   *)
(* state dict                                                               *)

StepStrings ==
    {"", "start", "persona_classification", "persona_classified",
     "product_matching", "products_matched", "ranking", "products_ranked",
     "query_generation", "query_generated", "completed", "error", "bogus"}

\* a state with every stage's slot written: the four stages run in pipeline
\* order on TrustInput with the mock data
PopulatedState ==
    LET s1 == persona_classifier_node(create_initial_state(TrustInput),
                                      [fault |-> FALSE, rules |-> NoRules, rag |-> <<>>]).state
        s2 == product_matching_node(s1, Db("query_error", <<>>, <<>>)).state
        s3 == ranker_node(s2).state
    IN query_generator_node(s3).state

AnyStates ==
    {[base EXCEPT
          !.current_step = cs, !.error_message = em,
          !.sql_query = sq, !.completed_steps = log] :
        base \in {create_initial_state(ApiInput), PopulatedState},
        cs \in StepStrings,
        em \in {None, Some(EmptyMsg), Some(Msg("boom", ""))},
        sq \in {None, Some([query |-> "SELECT", parameters |-> <<>>])},
        log \in {<<>>, <<"persona_classification">>}}

FnInit ==
    /\ state \in AnyStates
    /\ last = Called("init", "ok", NoEnv)
    /\ node = "fn"
    /\ trace = <<>>
    /\ response = None
    /\ decision = None
    /\ returned = None

FnRouter ==
    /\ state' = router_node(state)
    /\ last' = Called("router", "ok", NoEnv)
    /\ decision' = None
    /\ response' = None
    /\ UNCHANGED <<node, trace, returned>>

FnShouldContinue ==
    /\ decision' = Some(should_continue(state))
    /\ last' = Called("should_continue", "ok", NoEnv)
    /\ UNCHANGED <<state, node, trace, response, returned>>

\* get_recommendations on a result that recommendation_graph.invoke returned
FnRespond ==
    /\ response' = Some(get_recommendations(state))
    /\ last' = Called("respond", "ok", NoEnv)
    /\ UNCHANGED <<state, node, trace, decision, returned>>

FnNext == FnRouter \/ FnShouldContinue \/ FnRespond

FnSpec == FnInit /\ [][FnNext]_vars

-----------------------------------------------------------------------------
(* CallSpec: the scoring functions called directly, each on arguments drawn  *)
(* from the sets below                                                       *)

Sliders(v) == [k \in 1..5 |-> Some(v[k])]

\* slider settings: every prototype, a coarse grid, settings at equal distance
\* from two prototypes, settings outside [0,100] and absent axes
ClassifyPrefs ==
    {Sliders(PERSONA_PROTOTYPES[p]) : p \in PersonaTypes}
      \cup {Sliders(v) : v \in [1..5 -> {10, 50, 90}]}
      \cup {Sliders(<<90, 50, 50, 90, 25>>), Sliders(<<50, 55, 50, 50, 30>>),
            Sliders(<<78, 50, 50, 60, 25>>), Sliders(<<130, 50, 50, 75, 25>>),
            BareInput.sliders, NoSliders}

\* a rules.json with bounds on three personas, a high min_confidence and a
\* configured fallback
StrictRules ==
    [persona_rules |->
        [p \in {"trust_safety_pro", "responsive_kind", "local_offline"} |->
            [conditions |-> <<[kind |-> "min", axis |-> 1, threshold |-> 80],
                              [kind |-> "max", axis |-> 5, threshold |-> 30]>>,
             min_confidence |-> Some(9000)]],
     fallback_persona |-> Some("balanced_low_activity")]

\* a rules.json whose fallback_persona is no PersonaType value
MisnamedFallbackRules == [SomeRules EXCEPT !.fallback_persona = Some("nobody")]

ClassifyRules == {NoRules, SomeRules, StrictRules, MisnamedFallbackRules}

ClassifyArgs ==
    [kind : {"classify_persona"}, user_prefs : ClassifyPrefs,
     rules : ClassifyRules, rag : RagChoices]

\* how many sellers and products a direct call of a matching function is given
MaxSellers == 3
MaxProducts == 2

SeqsUpTo(S, n) == UNION {[1..k -> S] : k \in 0..n}

\* sellers as get_sellers_with_persona or get_mock_sellers hand them over: two
\* that differ in seller_id only, one far from a neutral buyer, and one a
\* little farther than the first but of the best quality
CallSellers ==
    {[seller_id |-> "s1", persona_vector |-> <<50, 50, 50, 50, 50>>,
      total_sales |-> 500, avg_rating |-> 45, response_time_hours |-> 3],
     [seller_id |-> "s2", persona_vector |-> <<50, 50, 50, 50, 50>>,
      total_sales |-> 500, avg_rating |-> 45, response_time_hours |-> 3],
     [seller_id |-> "s3", persona_vector |-> <<0, 100, 0, 100, 0>>,
      total_sales |-> 0, avg_rating |-> 20, response_time_hours |-> 30],
     [seller_id |-> "s4", persona_vector |-> <<50, 50, 50, 50, 40>>,
      total_sales |-> 1000, avg_rating |-> 50, response_time_hours |-> 0]}

\* products of those sellers and of a seller "s9" that is never scored
CallProducts ==
    {[product_id |-> "p1", seller_id |-> "s1", price |-> 900000,
      category |-> "phone", condition |-> "worn", location |-> "seoul",
      view_count |-> 0, like_count |-> 0],
     [product_id |-> "p2", seller_id |-> "s3", price |-> 50000,
      category |-> "shoes", condition |-> "worn", location |-> "busan",
      view_count |-> 500, like_count |-> 0],
     [product_id |-> "p3", seller_id |-> "s4", price |-> 700000,
      category |-> "phone", condition |-> "new", location |-> "seoul",
      view_count |-> 2000, like_count |-> 150],
     [product_id |-> "p4", seller_id |-> "s9", price |-> 1000,
      category |-> "book", condition |-> "used", location |-> "seoul",
      view_count |-> 10, like_count |-> 1]}

CallUserPersonas == {<<50, 50, 50, 50, 50>>, <<0, 100, 0, 100, 0>>}

MatchSellerArgs ==
    [kind : {"match_user_seller_persona"}, user_persona : CallUserPersonas,
     sellers : SeqsUpTo(CallSellers, MaxSellers)]

\* the scored sellers are what match_user_seller_persona returned for a
\* neutral buyer
MatchProductArgs ==
    [kind : {"match_seller_product_features"},
     seller_scores : {match_user_seller_persona(<<50, 50, 50, 50, 50>>, sellers) :
                         sellers \in SeqsUpTo(CallSellers, MaxSellers)},
     products : SeqsUpTo(CallProducts, MaxProducts)]

\* how many entries a candidate list handed to the ranker holds
MaxFuse == 3

\* the records match_seller_product_features builds from the sellers and
\* products above
FuseItemPool ==
    UNION {{items[i] : i \in 1..Len(items)} :
              items \in {match_seller_product_features(a.seller_scores, a.products) :
                            a \in MatchProductArgs}}

\* candidate lists: empty, of one item, of several items in any order, the
\* same record more than once
FuseLists == SeqsUpTo(FuseItemPool, MaxFuse)

\* classifications as classify_persona returns them: a prototype without and
\* with retrieval candidates, and a setting far from every prototype
FusePersonas ==
    {classify_persona(NoRules, Sliders(PERSONA_PROTOTYPES["trust_safety_pro"]), g).result :
        g \in RagChoices}
      \cup {classify_persona(NoRules, Sliders(<<10, 10, 10, 10, 10>>), <<>>).result}

NormalizeArgs == [kind : {"normalize_scores"}, seller_item_scores : FuseLists]

\* the list the diversity step is handed is what the two steps before it made
\* of a candidate list
DiversityArgs ==
    [kind : {"apply_diversity_bonus"},
     weighted_scores :
         {apply_persona_weights(normalize_scores(items), pc) :
             items \in FuseLists,
             pc \in {classify_persona(NoRules, Sliders(<<10, 10, 10, 10, 10>>), <<>>).result}}]

FuseArgs ==
    [kind : {"fuse_scores"}, seller_item_scores : FuseLists,
     persona_classification : FusePersonas]

CallArgs ==
    ClassifyArgs \cup MatchSellerArgs \cup MatchProductArgs
      \cup NormalizeArgs \cup DiversityArgs \cup FuseArgs

CallInit ==
    /\ state = create_initial_state(ApiInput)
    /\ \E a \in CallArgs : last = Called("init", "ok", a)
    /\ node = "call"
    /\ trace = <<>>
    /\ response = None
    /\ decision = None
    /\ returned = None

\* the bookkeeping of one direct call
Call(op, ok, value) ==
    /\ last.op = "init"
    /\ last.env.kind = op
    /\ last' = Called(op, IF ok THEN "ok" ELSE "raised", last.env)
    /\ returned' = IF ok THEN Some(value) ELSE None
    /\ UNCHANGED <<state, node, trace, response, decision>>

\* PersonaClassifier(...).classify_persona(user_prefs)
CallClassifyPersona ==
    /\ last.env.kind = "classify_persona"
    /\ LET c == classify_persona(last.env.rules, last.env.user_prefs, last.env.rag)
       IN Call("classify_persona", c.ok, c.result)

\* ProductMatching().match_user_seller_persona(user_persona, sellers)
CallMatchUserSellerPersona ==
    /\ last.env.kind = "match_user_seller_persona"
    /\ Call("match_user_seller_persona", TRUE,
            match_user_seller_persona(last.env.user_persona, last.env.sellers))

\* ProductMatching().match_seller_product_features(seller_scores, products)
CallMatchSellerProductFeatures ==
    /\ last.env.kind = "match_seller_product_features"
    /\ Call("match_seller_product_features", TRUE,
            match_seller_product_features(last.env.seller_scores, last.env.products))

\* FusionRanker()._normalize_scores(seller_item_scores)
CallNormalizeScores ==
    /\ last.env.kind = "normalize_scores"
    /\ Call("normalize_scores", TRUE, normalize_scores(last.env.seller_item_scores))

\* FusionRanker()._apply_diversity_bonus(weighted_scores)
CallApplyDiversityBonus ==
    /\ last.env.kind = "apply_diversity_bonus"
    /\ Call("apply_diversity_bonus", TRUE, apply_diversity_bonus(last.env.weighted_scores))

\* one run of fuse_scores on the arguments the last call record holds; the
\* record of the call before it, with what that call returned, goes to trace
FuseRun(op, args_after(_)) ==
    LET r == fuse_scores(last.env.seller_item_scores, last.env.persona_classification)
    IN /\ last' = Called(op, IF r.ok THEN "ok" ELSE "raised", args_after(r))
       /\ returned' = IF r.ok THEN Some(r.items) ELSE None
       /\ trace' = Append(trace, [call |-> last, returned |-> returned])
       /\ UNCHANGED <<state, node, response, decision>>

\* a variant of the first run whose steps write into the caller's records and
\* sort the caller's list
CallFuseScoresInPlace ==
    /\ last.op = "init"
    /\ last.env.kind = "fuse_scores"
    /\ FuseRun("fuse_scores",
               LAMBDA r : IF r.ok THEN [last.env EXCEPT !.seller_item_scores = r.items]
                          ELSE last.env)

\* ranker = FusionRanker(); ranker.fuse_scores(seller_item_scores,
\* persona_classification).  Every step works on item.copy() and appends to a
\* list of its own, and the sort is on final_items: the caller's list and
\* records are after the call what they were before it.
CallFuseScores ==
    /\ last.op = "init"
    /\ last.env.kind = "fuse_scores"
    /\ FuseRun("fuse_scores", LAMBDA r : last.env)

\* ranker.fuse_scores(seller_item_scores, persona_classification) once more,
\* on the same ranker and the same arguments
CallFuseScoresAgain ==
    /\ last.op = "fuse_scores"
    /\ FuseRun("fuse_scores_again", LAMBDA r : last.env)

CallNext ==
    \/ CallClassifyPersona
    \/ CallMatchUserSellerPersona
    \/ CallMatchSellerProductFeatures
    \/ CallNormalizeScores
    \/ CallApplyDiversityBonus
    \/ CallFuseScores
    \/ CallFuseScoresAgain

CallSpec == CallInit /\ [][CallNext]_vars

-----------------------------------------------------------------------------
(* Properties *)

\* the stage nodes the graph host has executed, in order
StagesRun ==
    LET RECURSIVE F(_)
        F(i) == IF i > Len(trace) THEN <<>>
                ELSE IF trace[i].op \in StageNodes THEN <<trace[i].op>> \o F(i + 1)
                ELSE F(i + 1)
    IN F(1)

PipelineOrder == <<"persona_classifier", "product_matching", "ranker", "query_generator">>

\* the output slot a stage node writes
OutputSlot(op, s) ==
    CASE op = "persona_classifier" -> s.persona_classification
      [] op = "product_matching" -> s.seller_item_scores
      [] op = "ranker" -> s.final_item_scores
      [] op = "query_generator" -> s.search_query

\* every stage output slot of the state
OutputSlots(s) ==
    <<s.persona_classification, s.seller_item_scores, s.final_item_scores,
      s.search_query, s.sql_query, s.ranking_explanation>>

InErrorState(s) == s.current_step = "error" /\ TruthyMsg(s.error_message)

\* C1 (GraphSpec), as claimed: a graph run that has ended and in which no stage
\* trapped a fault has run the four stages in pipeline order and ended with
\* current_step = "completed" and no error_message.
C1_RunWithoutStageFault ==
    /\ node = END
    /\ \A i \in 1..Len(trace) : trace[i].outcome = "ok"
C1_EndsCompleted ==
    C1_RunWithoutStageFault =>
        /\ StagesRun = PipelineOrder
        /\ state.current_step = "completed"
        /\ IsNone(state.error_message)

\* C2 (Spec): a stage node call returns (it never raises), and a call that
\* trapped a fault leaves current_step = "error", a non-empty error_message,
\* and completed_steps and the stage's own output slot as they were.
C2_StageTrapsFaults ==
    [][last'.op \in StageNodes =>
          /\ last'.outcome \in {"ok", "trapped"}
          /\ last'.outcome = "trapped" =>
                /\ InErrorState(state')
                /\ state'.completed_steps = state.completed_steps
                /\ OutputSlot(last'.op, state') = OutputSlot(last'.op, state)]_vars
\* a stage faulted when its slot was already written and steps were logged
C2_Witness ==
    /\ last.op = "persona_classifier"
    /\ last.outcome = "trapped"
    /\ ~IsNone(state.persona_classification)
    /\ state.completed_steps # <<>>

\* C3 (FnSpec): router_node on a current_step that the lookup does not know and
\* that is neither "error" nor "completed" sets current_step = "error", sets an
\* error_message naming that step, and writes no stage output slot.
C3_KnownToRouter ==
    {"start", "persona_classified", "products_matched", "products_ranked",
     "error", "completed"}
C3_UnknownStepErrors ==
    [][(last'.op = "router" /\ state.current_step \notin C3_KnownToRouter) =>
          /\ state'.current_step = "error"
          /\ state'.error_message = Some(Msg("unknown step: ", state.current_step))
          /\ OutputSlots(state') = OutputSlots(state)]_vars
\* the router met an unknown step on a state whose slots were all written
C3_Witness ==
    /\ last.op = "router"
    /\ state.error_message = Some(Msg("unknown step: ", "bogus"))
    /\ ~IsNone(state.final_item_scores)

\* C4 (FnSpec), as claimed: from "start" and from the current_step each stage
\* node writes on success router_node does not produce "error"; from every
\* other string (the terminal "completed" aside) it produces "error".
C4_StepsStagesWrite ==
    {"start", "persona_classified", "products_matched", "products_ranked",
     "query_generated"}
C4_LookupTotal ==
    [][last'.op = "router" =>
          /\ state.current_step \in C4_StepsStagesWrite => state'.current_step # "error"
          /\ state.current_step \notin C4_StepsStagesWrite \cup {"completed"}
                => state'.current_step = "error"]_vars

\* C5 (FnSpec): should_continue answers "end" exactly when error_message is
\* non-empty or current_step is "query_generated", "completed" or "error", and
\* "continue" for every other state.
C5_EndExactlyWhenTerminal ==
    ~IsNone(decision) =>
        LET terminal == \/ TruthyMsg(state.error_message)
                        \/ state.current_step \in {"query_generated", "completed", "error"}
        IN Get(decision) = IF terminal THEN "end" ELSE "continue"
\* "end" on a step alone, "continue" on an empty error message
C5_Witness ==
    \/ /\ decision = Some("end")
       /\ IsNone(state.error_message)
       /\ state.current_step = "query_generated"
    \/ /\ decision = Some("continue")
       /\ state.error_message = Some(EmptyMsg)

\* C6 (GraphSpec): once current_step = "error" no step of the run changes the
\* state; the router, invoked on it, leaves it as it is and the graph goes from
\* the router to END, so no stage node runs again.
C6_ErrorStopsTheRun ==
    [][state.current_step = "error" =>
          /\ state' = state
          /\ node' \notin StageNodes
          /\ node = "router" => (last'.op = "router" /\ node' = END)
          /\ StagesRun' = StagesRun]_vars
\* the router ran on the error state a stage left behind, and the run ended
C6_Witness ==
    /\ node = END
    /\ Len(trace) >= 2
    /\ trace[Len(trace)].op = "router"
    /\ trace[Len(trace) - 1].outcome = "trapped"
    /\ state.current_step = "error"
    /\ ~IsNone(state.seller_item_scores)

\* C7 (Spec), as claimed: once current_step = "error", every later state has
\* current_step = "error", whichever node the host invokes.
C7_ErrorAbsorbing ==
    [][state.current_step = "error" => state'.current_step = "error"]_vars

\* C8 (Spec): product_matching_node without persona_classification,
\* ranker_node without seller_item_scores or without persona_classification,
\* and query_generator_node without persona_classification each end with
\* current_step = "error", a non-empty error_message and their slot unset.
C8_MissingPrerequisite ==
    [][/\ (last'.op = "product_matching" /\ IsNone(state.persona_classification))
            => InErrorState(state') /\ IsNone(state'.seller_item_scores)
       /\ (last'.op = "ranker" /\ (IsNone(state.seller_item_scores)
                                     \/ IsNone(state.persona_classification)))
            => InErrorState(state') /\ IsNone(state'.final_item_scores)
       /\ (last'.op = "query_generator" /\ IsNone(state.persona_classification))
            => InErrorState(state') /\ IsNone(state'.search_query)]_vars
\* the ranker ran after classification but before any matching
C8_Witness ==
    /\ last.op = "ranker"
    /\ ~IsNone(state.persona_classification)
    /\ IsNone(state.seller_item_scores)
    /\ IsNone(state.final_item_scores)
    /\ InErrorState(state)

\* C9 (GraphSpec): when the tables answer with zero sellers or zero products,
\* product_matching_node ends in the error state with seller_item_scores
\* unset, and neither ranker_node nor query_generator_node runs afterwards.
C9_EmptyAnswer(call) ==
    /\ call.op = "product_matching"
    /\ call.env.kind = "rows"
    /\ LET data == get_products_for_matching(call.env, NoFilters)
       IN data.sellers = <<>> \/ data.products = <<>>
C9_EmptyInputShortCircuits ==
    \A i \in 1..Len(trace) :
        C9_EmptyAnswer(trace[i]) =>
            /\ trace[i].outcome = "trapped"
            /\ InErrorState(state)
            /\ IsNone(state.seller_item_scores)
            /\ \A j \in (i + 1)..Len(trace) : trace[j].op \notin {"ranker", "query_generator"}
\* the run ended after sellers were found but no product was
C9_Witness ==
    /\ node = END
    /\ \E i \in 1..Len(trace) :
          C9_EmptyAnswer(trace[i]) /\ trace[i].env.sellers # <<>>

\* C10 (FnSpec): the handler answers 200 only when the state the run returned
\* has no error_message; when error_message is set it answers 500 with that
\* message and carries no products, classification or query.
C10_AllOrNothing ==
    ~IsNone(response) =>
        LET r == Get(response)
        IN /\ r.status = 200 => ~TruthyMsg(state.error_message)
           /\ TruthyMsg(state.error_message) =>
                 /\ r.status = 500
                 /\ r.detail = state.error_message
                 /\ IsNone(r.products)
                 /\ IsNone(r.persona_classification)
                 /\ IsNone(r.search_query)
\* a run that had classified, matched and ranked before it failed was
\* answered 500
C10_Witness ==
    /\ ~IsNone(response)
    /\ Get(response).status = 500
    /\ Get(response).detail = state.error_message
    /\ ~IsNone(state.final_item_scores)

\* the step names the stage nodes log, in pipeline order
PipelineSteps ==
    <<"persona_classification", "product_matching", "ranking", "query_generation">>

IsPrefix(a, b) == Len(a) <= Len(b) /\ a = SubSeq(b, 1, Len(a))

\* C11 (GraphSpec), as claimed: in every state of a graph run completed_steps
\* is a prefix of the pipeline's step names and holds one entry for each
\* stage node that returned successfully.
C11_OrderedLog ==
    /\ IsPrefix(state.completed_steps, PipelineSteps)
    /\ Len(state.completed_steps)
          = Cardinality({i \in 1..Len(trace) :
                            trace[i].op \in StageNodes /\ trace[i].outcome = "ok"})

\* C12 (GraphSpec): every graph run ends after finitely many node executions.
\* Each stage node runs at most once, so a run makes at most one router call
\* before each stage and one after the last; until END the host is at a node
\* of the graph, which it can always execute; and at END current_step is
\* "completed" or "error", whether the stages succeeded or failed.
C12_StageAtMostOnce ==
    \A i, j \in 1..Len(trace) :
        (trace[i].op \in StageNodes /\ trace[i].op = trace[j].op) => i = j
C12_LongestRun == 2 * Len(PipelineOrder) + 1
C12_Terminates ==
    /\ C12_StageAtMostOnce
    /\ Len(trace) <= C12_LongestRun
    /\ node # END => node \in {"router"} \cup StageNodes
    /\ node = END => state.current_step \in {"completed", "error"}
\* a run that ended after all four stages had run
C12_Witness ==
    /\ node = END
    /\ state.current_step = "error"
    /\ Len(StagesRun) = Len(PipelineOrder)

\* C13 (Spec): whatever the order of node calls, final_item_scores is set only
\* when seller_item_scores is set and non-empty, seller_item_scores only when
\* persona_classification is set, and search_query only when
\* persona_classification is set.
C13_SlotsInPipelineOrder ==
    /\ ~IsNone(state.final_item_scores) => TruthyList(state.seller_item_scores)
    /\ ~IsNone(state.seller_item_scores) => ~IsNone(state.persona_classification)
    /\ ~IsNone(state.search_query) => ~IsNone(state.persona_classification)
\* a host ran the query generator before matching and ranking
C13_Witness ==
    /\ ~IsNone(state.final_item_scores)
    /\ ~IsNone(state.search_query)
    /\ state.completed_steps[2] = "query_generation"

\* a direct call of classify_persona has returned
Classified == last.op = "classify_persona" /\ ~IsNone(returned)

\* the squared distance from v to the nearest prototype
MinDist2(v) ==
    CHOOSE d \in {Dist2(v, PERSONA_PROTOTYPES[p]) : p \in PersonaTypes} :
        \A p \in PersonaTypes : d <= Dist2(v, PERSONA_PROTOTYPES[p])

PersonaIndex(p) == CHOOSE i \in 1..Len(PersonaOrder) : PersonaOrder[i] = p

\* the prototype at minimum distance from v that is declared first
FirstNearest(v) ==
    CHOOSE p \in PersonaTypes :
        /\ Dist2(v, PERSONA_PROTOTYPES[p]) = MinDist2(v)
        /\ \A q \in PersonaTypes :
              Dist2(v, PERSONA_PROTOTYPES[q]) = MinDist2(v)
                  => PersonaIndex(p) <= PersonaIndex(q)

\* 0.7 * confidence + 0.3 * max(similarity) when retrieval answered candidates
Blended(confidence, rag) ==
    IF rag = <<>> THEN confidence
    ELSE LET top == CHOOSE m \in {rag[i] : i \in 1..Len(rag)} :
                        \A i \in 1..Len(rag) : rag[i] <= m
         IN (7 * confidence + 3 * top) \div 10

\* the persona whose prototype the sliders of the call are, if any
IsPrototypeOf(user_prefs, p) == user_prefs = Sliders(PERSONA_PROTOTYPES[p])

\* C14, as claimed (CallSpec): classify_persona on the prototype vector of a
\* persona P returns P with confidence 1.0, unless P's rule entry fails.
C14_PrototypeIsCertain ==
    Classified =>
        \A p \in PersonaTypes :
            (IsPrototypeOf(last.env.user_prefs, p) /\ Get(returned).reason.path # "fallback")
                => /\ Get(returned).persona_type = p
                   /\ Get(returned).confidence = ConfScale
\* C14, amended (CallSpec): classify_persona on the prototype vector of a
\* persona P returns P, unless P's rule entry fails, with confidence 1.0 when
\* retrieval answers no candidate and 0.7 + 0.3 * max(similarity) when it does.
C14_PrototypeIsCertainUnblended ==
    Classified =>
        \A p \in PersonaTypes :
            (IsPrototypeOf(last.env.user_prefs, p) /\ Get(returned).reason.path # "fallback")
                => /\ Get(returned).persona_type = p
                   /\ Get(returned).confidence = Blended(ConfScale, last.env.rag)
\* the trust_safety_pro prototype, its rule holding, no retrieval candidate
C14_Witness ==
    /\ Classified
    /\ last.env.user_prefs = TrustInput.sliders
    /\ last.env.rules = SomeRules
    /\ last.env.rag = <<>>
    /\ Get(returned).persona_type = "trust_safety_pro"
    /\ Get(returned).confidence = ConfScale

\* C15 (CallSpec): when the nearest persona has no rule entry, the persona
\* returned is a prototype at minimum distance from the clamped user vector,
\* and among several such prototypes the one declared first.
C15_NearestFirstDeclared ==
    (Classified /\ Get(returned).reason.path = "distance") =>
        LET v == Get(returned).vector
            p == Get(returned).persona_type
        IN /\ \A k \in 1..5 : v[k] \in 0..100
           /\ \A q \in PersonaTypes :
                 /\ Dist2(v, PERSONA_PROTOTYPES[p]) <= Dist2(v, PERSONA_PROTOTYPES[q])
                 /\ Dist2(v, PERSONA_PROTOTYPES[p]) = Dist2(v, PERSONA_PROTOTYPES[q])
                       => PersonaIndex(p) <= PersonaIndex(q)
\* sliders at equal distance from trust_safety_pro and responsive_kind
C15_Witness ==
    /\ Classified
    /\ last.env.rules = NoRules
    /\ Get(returned).vector = <<90, 50, 50, 90, 25>>
    /\ Dist2(Get(returned).vector, PERSONA_PROTOTYPES["trust_safety_pro"])
          = Dist2(Get(returned).vector, PERSONA_PROTOTYPES["responsive_kind"])
    /\ Get(returned).persona_type = "trust_safety_pro"

\* the slider settings a classification is compared with
C16_OtherPrefs ==
    {Sliders(PERSONA_PROTOTYPES[p]) : p \in PersonaTypes}
      \cup {Sliders(<<90, 50, 50, 90, 25>>), Sliders(<<50, 55, 50, 50, 30>>),
            Sliders(<<78, 50, 50, 60, 25>>), Sliders(<<10, 90, 10, 90, 10>>),
            Sliders(<<90, 90, 90, 90, 90>>), Sliders(<<50, 50, 50, 50, 10>>),
            Sliders(<<0, 100, 100, 0, 0>>)}
\* C16, as claimed (CallSpec): under the same rules and retrieval candidates,
\* a user vector nearer to its nearest prototype than another gets a
\* confidence at least as high as the other's.
C16_ConfidenceMonotonic ==
    Classified =>
        \A w \in C16_OtherPrefs :
            LET other == classify_persona(last.env.rules, w, last.env.rag)
            IN (other.ok /\ MinDist2(Get(returned).vector) <= MinDist2(other.result.vector))
                  => Get(returned).confidence >= other.result.confidence
\* C16, amended (CallSpec): the same, for two user vectors neither of which is
\* given the rule fallback.
C16_ConfidenceMonotonicWithoutFallback ==
    Classified =>
        \A w \in C16_OtherPrefs :
            LET other == classify_persona(last.env.rules, w, last.env.rag)
            IN (/\ other.ok
                /\ Get(returned).reason.path # "fallback"
                /\ other.result.reason.path # "fallback"
                /\ MinDist2(Get(returned).vector) <= MinDist2(other.result.vector))
                  => Get(returned).confidence >= other.result.confidence
\* a rule-matched vector and a farther one with a strictly lower confidence
C16_Witness ==
    /\ Classified
    /\ Get(returned).reason.path = "rule_match"
    /\ \E w \in C16_OtherPrefs :
          LET other == classify_persona(last.env.rules, w, last.env.rag)
          IN /\ other.ok
             /\ other.result.reason.path # "fallback"
             /\ MinDist2(Get(returned).vector) < MinDist2(other.result.vector)
             /\ Get(returned).confidence > other.result.confidence

\* the rule entry of persona p bounds v out, or asks for more confidence
C17_RuleFails(rules, p, v) ==
    LET rule == rules.persona_rules[p]
        min_confidence == IF IsNone(rule.min_confidence) THEN ConfScale \div 2
                          ELSE Get(rule.min_confidence)
    IN \/ \E i \in 1..Len(rule.conditions) :
             \/ rule.conditions[i].kind = "min"
                  /\ v[rule.conditions[i].axis] < rule.conditions[i].threshold
             \/ rule.conditions[i].kind = "max"
                  /\ v[rule.conditions[i].axis] > rule.conditions[i].threshold
       \/ ConfScale - ISqrt(2000 * MinDist2(v)) < min_confidence
C17_Fallback(rules) ==
    IF IsNone(rules.fallback_persona) THEN "hybrid_trade" ELSE Get(rules.fallback_persona)
\* C17 (CallSpec): when the nearest persona has a rule entry and one of its
\* bounds is violated or the distance confidence is below its min_confidence,
\* the result is the configured fallback persona (hybrid_trade by default)
\* with confidence 0.5 before retrieval blending, a reason noting the fallback
\* and the fallback's prototype as matched_prototype; when the rule holds the
\* nearest persona is kept.
C17_RuleFallback ==
    LET r == Get(returned)
        rules == last.env.rules
        nearest == FirstNearest(r.vector)
    IN (Classified /\ nearest \in DOMAIN rules.persona_rules) =>
          IF C17_RuleFails(rules, nearest, r.vector)
          THEN /\ r.persona_type = C17_Fallback(rules)
               /\ r.confidence = Blended(ConfScale \div 2, last.env.rag)
               /\ r.reason.path = "fallback"
               /\ r.matched_prototype = PERSONA_PROTOTYPES[C17_Fallback(rules)]
          ELSE /\ r.persona_type = nearest
               /\ r.reason.path = "rule_match"
\* a max_ bound bounded the nearest persona out and the configured fallback,
\* blended with retrieval, was returned
C17_Witness ==
    /\ Classified
    /\ last.env.rules = StrictRules
    /\ last.env.rag # <<>>
    /\ FirstNearest(Get(returned).vector) = "local_offline"
    /\ Get(returned).vector[1] >= 80
    /\ Get(returned).vector[5] > 30
    /\ Get(returned).persona_type = "balanced_low_activity"

\* C18, as claimed (CallSpec): with the rules file missing classify_persona
\* does not raise and returns the nearest prototype's persona with the
\* distance confidence, no fallback applied.
C18_MissingRulesDegrade ==
    (last.op = "classify_persona" /\ last.env.rules = NoRules) =>
        /\ last.outcome = "ok"
        /\ ~IsNone(returned)
        /\ Get(returned).persona_type = FirstNearest(Get(returned).vector)
        /\ Get(returned).reason.path = "distance"
        /\ Get(returned).confidence
              = ConfScale - ISqrt(2000 * MinDist2(Get(returned).vector))
\* C18, amended (CallSpec): with the rules file missing classify_persona does
\* not raise and returns the nearest prototype's persona, no fallback applied,
\* with the distance confidence, blended with the retrieval similarity when
\* retrieval answers candidates.
C18_MissingRulesDegradeBlended ==
    (last.op = "classify_persona" /\ last.env.rules = NoRules) =>
        /\ last.outcome = "ok"
        /\ ~IsNone(returned)
        /\ Get(returned).persona_type = FirstNearest(Get(returned).vector)
        /\ Get(returned).reason.path = "distance"
        /\ Get(returned).confidence
              = Blended(ConfScale - ISqrt(2000 * MinDist2(Get(returned).vector)),
                        last.env.rag)
\* no rules, sliders that a rule of the other configurations bounds out
C18_Witness ==
    /\ Classified
    /\ last.env.rules = NoRules
    /\ last.env.rag = <<>>
    /\ Get(returned).vector = <<78, 50, 50, 60, 25>>
    /\ Get(returned).persona_type = "trust_safety_pro"

\* the orderings of 1..n
Orderings(n) == {f \in [1..n -> 1..n] : \A i, j \in 1..n : f[i] = f[j] => i = j}

\* C19 (CallSpec): match_user_seller_persona returns one score record per
\* input seller, the records a reordering of the sellers, in non-increasing
\* final_score, sellers of equal final_score in their input order.
C19_StableSellerRanking ==
    (last.op = "match_user_seller_persona" /\ ~IsNone(returned)) =>
        LET sellers == last.env.sellers
            ranked == Get(returned)
            n == Len(sellers)
        IN /\ Len(ranked) = n
           /\ \A k \in 1..(n - 1) : ranked[k].final_score >= ranked[k + 1].final_score
           /\ \E f \in Orderings(n) :
                 /\ \A k \in 1..n :
                       /\ ranked[k].seller_id = sellers[f[k]].seller_id
                       /\ ranked[k].persona_vector = sellers[f[k]].persona_vector
                       /\ ranked[k].total_sales = sellers[f[k]].total_sales
                       /\ ranked[k].avg_rating = sellers[f[k]].avg_rating
                 /\ \A k, m \in 1..n :
                       (k < m /\ ranked[k].final_score = ranked[m].final_score)
                            => f[k] < f[m]
\* s2 was given before its equal s1, and the better s4 after both
C19_Witness ==
    /\ last.op = "match_user_seller_persona"
    /\ ~IsNone(returned)
    /\ Len(last.env.sellers) = 3
    /\ last.env.sellers[1].seller_id = "s2"
    /\ last.env.sellers[2].seller_id = "s1"
    /\ last.env.sellers[3].seller_id = "s4"
    /\ Get(returned)[1].seller_id = "s4"
    /\ Get(returned)[2].seller_id = "s2"
    /\ Get(returned)[3].seller_id = "s1"
    /\ Get(returned)[2].final_score = Get(returned)[3].final_score

\* the records are in non-increasing final_item_score and each is a product of
\* the call joined with a scored seller of the same seller_id
C20_JoinedAndSorted(seller_scores, products, items) ==
    /\ \A k \in 1..(Len(items) - 1) :
          items[k].final_item_score >= items[k + 1].final_item_score
    /\ \A k \in 1..Len(items) :
          /\ \E i \in 1..Len(seller_scores) : seller_scores[i].seller_id = items[k].seller_id
          /\ \E j \in 1..Len(products) :
                /\ products[j].product_id = items[k].product_id
                /\ products[j].seller_id = items[k].seller_id
    /\ \A j \in 1..Len(products) :
          (\E i \in 1..Len(seller_scores) : seller_scores[i].seller_id = products[j].seller_id)
             => \E k \in 1..Len(items) : items[k].product_id = products[j].product_id
\* C20, as claimed (CallSpec): match_seller_product_features returns exactly
\* one record for each input product whose seller_id is that of a scored
\* seller and none for any other product, in non-increasing final_item_score.
C20_OneRecordPerProduct ==
    (last.op = "match_seller_product_features" /\ ~IsNone(returned)) =>
        LET seller_scores == last.env.seller_scores
            products == last.env.products
        IN /\ C20_JoinedAndSorted(seller_scores, products, Get(returned))
           /\ Len(Get(returned))
                = Cardinality({j \in 1..Len(products) :
                                  \E i \in 1..Len(seller_scores) :
                                      seller_scores[i].seller_id = products[j].seller_id})
\* C20, amended (CallSpec): match_seller_product_features returns exactly one
\* record for each pair of a scored-seller entry and an input product of the
\* same seller_id, and none for a product whose seller was not scored, in
\* non-increasing final_item_score.
C20_OneRecordPerPair ==
    (last.op = "match_seller_product_features" /\ ~IsNone(returned)) =>
        LET seller_scores == last.env.seller_scores
            products == last.env.products
        IN /\ C20_JoinedAndSorted(seller_scores, products, Get(returned))
           /\ Len(Get(returned))
                = Cardinality({ij \in (1..Len(seller_scores)) \X (1..Len(products)) :
                                  seller_scores[ij[1]].seller_id = products[ij[2]].seller_id})
\* two scored sellers, a product of one of them and a product of a seller that
\* was not scored
C20_Witness ==
    /\ last.op = "match_seller_product_features"
    /\ ~IsNone(returned)
    /\ Len(last.env.seller_scores) = 2
    /\ last.env.seller_scores[1].seller_id # last.env.seller_scores[2].seller_id
    /\ Len(last.env.products) = 2
    /\ last.env.products[1].seller_id = "s9"
    /\ last.env.products[2].seller_id = last.env.seller_scores[2].seller_id
    /\ Len(Get(returned)) = 1

\* C21 (CallSpec): on a non-empty candidate list, a list of exactly one item
\* included, fuse_scores returns one entry per input item, and every entry
\* carries final_score = weighted_score + diversity_bonus and a
\* ranking_factors breakdown.
C21_FuseScoresTotal ==
    (last.op = "fuse_scores" /\ last.env.seller_item_scores # <<>>) =>
        /\ last.outcome = "ok"
        /\ Len(Get(returned)) = Len(last.env.seller_item_scores)
        /\ \A i \in 1..Len(Get(returned)) :
              LET item == Get(returned)[i]
              IN /\ {"final_score", "weighted_score", "diversity_bonus",
                     "ranking_factors"} \subseteq DOMAIN item
                 /\ item.final_score = item.weighted_score + item.diversity_bonus

\* C22 (CallSpec): the list fuse_scores returns is in non-increasing
\* final_score: of two adjacent entries the earlier one has a final_score at
\* least that of the later one.
C22_SortedByFinalScore ==
    (last.op = "fuse_scores" /\ ~IsNone(returned)) =>
        \A i \in 1..(Len(Get(returned)) - 1) :
            Get(returned)[i].final_score >= Get(returned)[i + 1].final_score
\* three different records handed over in an order the sort had to change
C22_Witness ==
    /\ last.op = "fuse_scores"
    /\ ~IsNone(returned)
    /\ Len(Get(returned)) = 3
    /\ Get(returned)[1].final_score > Get(returned)[2].final_score
    /\ Get(returned)[2].final_score > Get(returned)[3].final_score
    /\ Get(returned)[1].product_id = last.env.seller_item_scores[3].product_id
    /\ Get(returned)[1].product_id # last.env.seller_item_scores[1].product_id

\* C23 (CallSpec): rank decay of the diversity step.  On a list of at least
\* two items, of any two items the one at the later position of the list
\* handed to _apply_diversity_bonus gets a diversity_bonus at least that of
\* the one at the earlier position.
C23_RankDecay ==
    (last.op = "apply_diversity_bonus" /\ Len(last.env.weighted_scores) >= 2) =>
        \A i, j \in 1..Len(Get(returned)) :
            i < j => Get(returned)[j].diversity_bonus >= Get(returned)[i].diversity_bonus

\* the three score channels of _normalize_scores: the key read, the key written
C24_Channels ==
    {<<"seller_persona_score", "norm_persona_score">>,
     <<"seller_quality_score", "norm_quality_score">>,
     <<"product_feature_score", "norm_feature_score">>}
\* C24 (CallSpec): min-max normalization never divides by zero.  A channel
\* whose values are equal over the candidate list, a one-item list included,
\* is normalized to 0.5 for every item; any other channel is mapped into
\* [0,1] with its least value at 0 and its greatest at 1.
C24_MinMaxNormalization ==
    (last.op = "normalize_scores") =>
        /\ last.outcome = "ok"
        /\ Len(Get(returned)) = Len(last.env.seller_item_scores)
        /\ \A ch \in C24_Channels :
              LET n == Len(last.env.seller_item_scores)
                  raw(i) == last.env.seller_item_scores[i][ch[1]]
                  norm(i) == Get(returned)[i][ch[2]]
                  constant == \A i, j \in 1..n : raw(i) = raw(j)
              IN IF constant
                 THEN \A i \in 1..n : norm(i) = NormScale \div 2
                 ELSE \A i \in 1..n :
                        /\ norm(i) >= 0
                        /\ norm(i) <= NormScale
                        /\ (\A j \in 1..n : raw(i) <= raw(j)) => norm(i) = 0
                        /\ (\A j \in 1..n : raw(i) >= raw(j)) => norm(i) = NormScale
\* a one-item list: every channel is constant and comes out as 0.5
C24_Witness ==
    /\ last.op = "normalize_scores"
    /\ ~IsNone(returned)
    /\ Len(last.env.seller_item_scores) = 1
    /\ Get(returned)[1].norm_persona_score = NormScale \div 2
    /\ Get(returned)[1].norm_quality_score = NormScale \div 2
    /\ Get(returned)[1].norm_feature_score = NormScale \div 2
\* three different records: a channel with a value strictly between its ends
C24_Spread ==
    /\ last.op = "normalize_scores"
    /\ ~IsNone(returned)
    /\ \E i, j, k \in 1..Len(Get(returned)) :
          /\ Get(returned)[i].norm_persona_score = 0
          /\ Get(returned)[j].norm_persona_score = NormScale
          /\ Get(returned)[k].norm_persona_score \in 1..(NormScale - 1)

\* the order and the final scores of a returned list
C25_Ranking(result) ==
    IF IsNone(result) THEN None
    ELSE Some([i \in 1..Len(Get(result)) |->
                  [product_id |-> Get(result)[i].product_id,
                   seller_id |-> Get(result)[i].seller_id,
                   final_score |-> Get(result)[i].final_score]])
C26_Readers == {"router", "product_matching", "ranker", "query_generator"}
\* C26 (Spec): persona_classification is read-only downstream.  Once
\* persona_classifier_node has stored it, no call of router_node,
\* product_matching_node, ranker_node or query_generator_node changes the
\* slot or any field of the dict in it.
C26_ClassificationReadOnly ==
    [][(last'.op \in C26_Readers /\ ~IsNone(state.persona_classification))
          => state'.persona_classification = state.persona_classification]_vars
\* ranker_node has read a stored classification and ranked with it
C26_Witness ==
    /\ last.op = "ranker"
    /\ last.outcome = "ok"
    /\ TruthyDict(state.persona_classification)
    /\ TruthyList(state.final_item_scores)
    /\ Get(state.persona_classification).rag_candidates # <<>>

\* C27 (GraphSpec): in a graph-driven run, the filters product_matching_node
\* hands to the seller/product data source are the filters of the request,
\* create_filters(user_input).
C27_RequestFiltersApplied ==
    [][(last'.op = "product_matching" /\ TruthyDict(state.persona_classification))
          => matching_filters(state) = create_filters(state.user_input)]_vars

\* the workflow step a stage node carries out
C28_StepOf(op) ==
    CASE op = "persona_classifier" -> "persona_classification"
      [] op = "product_matching" -> "product_matching"
      [] op = "ranker" -> "ranking"
      [] op = "query_generator" -> "query_generation"
\* C28 (Spec): right after a stage node has returned without error,
\* validate_step_completion(state, S) is true for the node's step S: the slot
\* the orchestrator checks for S has been written by the node.
C28_StageFillsCheckedSlot ==
    (last.op \in StageNodes /\ last.outcome = "ok") =>
        validate_step_completion(state, C28_StepOf(last.op))

\* the product order of a ranked list
C29_Order(items) == [i \in 1..Len(items) |-> items[i].product_id]
\* C29 (GraphSpec): the pipeline is deterministic end to end.  With the same
\* user input, rules and seller/product data, another draw of the retrieval
\* stub's random query embedding gives the same persona_type, the same
\* confidence and the same final_item_scores order as the run at hand.
C29_Deterministic ==
    \A i \in 1..Len(trace) :
        (trace[i].op = "persona_classifier" /\ trace[i].outcome = "ok") =>
            \A g \in OtherDraws(trace[i].env.rag) :
                LET c == classify_persona(trace[i].env.rules, state.user_input.sliders, g)
                    pc == Get(state.persona_classification)
                IN /\ c.ok
                   /\ c.result.persona_type = pc.persona_type
                   /\ c.result.confidence = pc.confidence
                   /\ TruthyList(state.final_item_scores) =>
                        LET again == fuse_scores(Get(state.seller_item_scores), c.result)
                        IN /\ again.ok
                           /\ C29_Order(again.items)
                                = C29_Order(Get(state.final_item_scores))

\* C30 (FnSpec): should_continue and router_node agree on what is terminal.
\* In every state for which should_continue answers "end", a call of
\* router_node leaves current_step, error_message and completed_steps as
\* they were.
C30_TerminalAgreement ==
    [][(last'.op = "router" /\ should_continue(state) = "end")
          => /\ state'.current_step = state.current_step
             /\ state'.error_message = state.error_message
             /\ state'.completed_steps = state.completed_steps]_vars

====
